---------------------------- MODULE Spec2Model ----------------------------
(***************************************************************************)
(* scripts/update_readme.py: the README updater of the repository.         *)
(*                                                                         *)
(* A text (a Python str) is a sequence of characters; a character is a     *)
(* one-code-point token written as a TLA+ string ("a", "\\", "U+1F4D1").   *)
(* The file system is the tree under BASE_DIR and the README file; main()  *)
(* is a process whose position is pc.                                      *)
(***************************************************************************)
EXTENDS Integers, Sequences, FiniteSets, TLC

VARIABLES
    rootExists,     \* whether the directory BASE_DIR exists
    tree,           \* the files under BASE_DIR: a set of <<directory, file name>>
    readme,         \* the text of the file README, or Missing
    pc,             \* the position of main()
    topics,         \* main's local: the dict of collect_examples, in insertion order
    new_section,    \* main's local: the rendered block
    content,        \* main's local: the text read from README
    updated,        \* main's local: the text replace_section returned
    run,            \* the number of the current invocation of the script
    writes,         \* how many times this invocation has written README
    readmeAtStart,  \* README as it was when this invocation started
    prevSection     \* the block the previous invocation rendered, or Missing

vars == <<rootExists, tree, readme, pc, topics, new_section, content, updated,
          run, writes, readmeAtStart, prevSection>>

\* What stands for the text of a file that does not exist (no text holds this token).
Missing == <<"<missing>">>

-----------------------------------------------------------------------------
(* Bounds of the model.                                                    *)

MaxPieces == 4      \* a README is at most this many pieces (headings, characters)
MaxFiles == 2       \* the tree holds at most this many files
MaxRuns == 2        \* the script is invoked at most this many times

-----------------------------------------------------------------------------
(* Characters and texts.                                                   *)

LowerLetters == <<"a","b","c","d","e","f","g","h","i","j","k","l","m",
                  "n","o","p","q","r","s","t","u","v","w","x","y","z">>
UpperLetters == <<"A","B","C","D","E","F","G","H","I","J","K","L","M",
                  "N","O","P","Q","R","S","T","U","V","W","X","Y","Z">>

Range(s) == {s[i] : i \in 1..Len(s)}

IndexOf(s, c) == CHOOSE i \in 1..Len(s) : s[i] = c

IsLower(c) == c \in Range(LowerLetters)
IsUpper(c) == c \in Range(UpperLetters)
IsAsciiLetter(c) == IsLower(c) \/ IsUpper(c)

\* The other characters of the model, each with its code point.
OtherChars ==
    <<  <<"U+0007", 7>>, <<"U+0008", 8>>, <<"\t", 9>>, <<"\n", 10>>,
        <<"U+000B", 11>>, <<"\f", 12>>, <<"\r", 13>>,
        <<" ", 32>>, <<"#", 35>>, <<"&", 38>>, <<"(", 40>>, <<")", 41>>,
        <<"*", 42>>, <<"-", 45>>, <<".", 46>>, <<"/", 47>>, <<"[", 91>>,
        <<"\\", 92>>, <<"]", 93>>,
        <<"U+1F4D1", 128209>>, <<"U+1F6E0", 128736>>  >>

\* ord(c)
CodePoint(c) ==
    IF IsUpper(c) THEN 64 + IndexOf(UpperLetters, c)
    ELSE IF IsLower(c) THEN 96 + IndexOf(LowerLetters, c)
    ELSE (CHOOSE p \in Range(OtherChars) : p[1] = c)[2]

\* str.upper() and str.lower() of one character
Upper(c) == IF IsLower(c) THEN UpperLetters[IndexOf(LowerLetters, c)] ELSE c
Lower(c) == IF IsUpper(c) THEN LowerLetters[IndexOf(UpperLetters, c)] ELSE c

RECURSIVE Concat(_)
\* the concatenation of a sequence of texts
Concat(ts) == IF ts = <<>> THEN <<>> ELSE Head(ts) \o Concat(Tail(ts))

RECURSIVE Join(_, _)
\* sep.join(ts)
Join(sep, ts) ==
    IF ts = <<>> THEN <<>>
    ELSE IF Len(ts) = 1 THEN ts[1]
    ELSE ts[1] \o sep \o Join(sep, Tail(ts))

\* s.endswith(suffix)
EndsWith(s, suffix) ==
    /\ Len(s) >= Len(suffix)
    /\ SubSeq(s, Len(s) - Len(suffix) + 1, Len(s)) = suffix

\* s.replace(old, new) for one-character old and new
ReplaceChar(s, old, new) == [i \in 1..Len(s) |-> IF s[i] = old THEN new ELSE s[i]]

RECURSIVE StrLess(_, _)
\* a < b for two str: by code point, a proper prefix first
StrLess(a, b) ==
    IF b = <<>> THEN FALSE
    ELSE IF a = <<>> THEN TRUE
    ELSE IF Head(a) = Head(b) THEN StrLess(Tail(a), Tail(b))
    ELSE CodePoint(Head(a)) < CodePoint(Head(b))

RECURSIVE ListLess(_, _)
\* a < b for two lists of str
ListLess(a, b) ==
    IF b = <<>> THEN FALSE
    ELSE IF a = <<>> THEN TRUE
    ELSE IF Head(a) = Head(b) THEN ListLess(Tail(a), Tail(b))
    ELSE StrLess(Head(a), Head(b))

\* a < b for two (key, list) tuples of dict.items()
ItemLess(a, b) == StrLess(a[1], b[1]) \/ (a[1] = b[1] /\ ListLess(a[2], b[2]))


-----------------------------------------------------------------------------
(* The constants of the script.                                            *)

\* BASE_DIR = "src/main/java"
BASE_DIR == <<"s","r","c","/","m","a","i","n","/","j","a","v","a">>

\* ".java", the suffix collect_examples looks for
JavaSuffix == <<".","j","a","v","a">>

\* the 5 of f[:-5]
SuffixCut == 5

\* "## \U0001F4D1 Topics & Examples"
StartHeading == <<"#","#"," ","U+1F4D1"," ","T","o","p","i","c","s"," ","&"," ",
                  "E","x","a","m","p","l","e","s">>

\* "## \U0001F6E0 Requirements"
EndHeading == <<"#","#"," ","U+1F6E0"," ","R","e","q","u","i","r","e","m","e","n","t","s">>

-----------------------------------------------------------------------------
(* collect_examples                                                        *)

\* os.path.relpath(root, BASE_DIR) for a directory os.walk(BASE_DIR) yields;
\* dir is the directory's path below BASE_DIR, as the sequence of its names.
relpath(dir) == IF dir = <<>> THEN <<".">> ELSE Join(<<"/">>, dir)

\* The key's position in the dict, 0 when the dict has no such key.
KeyIndex(d, key) ==
    IF \E i \in 1..Len(d) : d[i][1] = key
    THEN CHOOSE i \in 1..Len(d) : d[i][1] = key
    ELSE 0

\* topics.setdefault(topic, []).append(f)
SetDefaultAppend(d, topic, f) ==
    LET i == KeyIndex(d, topic) IN
    IF i = 0 THEN Append(d, <<topic, <<f>> >>)
    ELSE [d EXCEPT ![i] = <<topic, Append(d[i][2], f)>>]

RECURSIVE CollectFilesUnfiltered(_, _, _)
\* CollectFiles without the test of the suffix
CollectFilesUnfiltered(d, root, files) ==
    IF files = <<>> THEN d
    ELSE CollectFilesUnfiltered(SetDefaultAppend(d, relpath(root), Head(files)),
                                root, Tail(files))

RECURSIVE CollectFiles(_, _, _)
\* The inner loop over the files of one directory, in the order os.walk lists them.
CollectFiles(d, root, files) ==
    IF files = <<>> THEN d
    ELSE LET f == Head(files)
             d1 == IF EndsWith(f, JavaSuffix)
                   THEN SetDefaultAppend(d, relpath(root), f)
                   ELSE d
         IN  CollectFiles(d1, root, Tail(files))

RECURSIVE CollectWalk(_, _)
\* The outer loop over what os.walk yields: a sequence of <<root, files>>.
CollectWalk(d, walk) ==
    IF walk = <<>> THEN d
    ELSE CollectWalk(CollectFiles(d, Head(walk)[1], Head(walk)[2]), Tail(walk))

\* collect_examples(), given what os.walk(BASE_DIR) yields
collect_examples(walk) == CollectWalk(<<>>, walk)

-----------------------------------------------------------------------------
(* generate_section                                                        *)

RECURSIVE InsertItem(_, _)
\* x put into the sorted list s, after the elements that are not greater
InsertItem(x, s) ==
    IF s = <<>> THEN <<x>>
    ELSE IF ItemLess(x, Head(s)) THEN <<x>> \o s
    ELSE <<Head(s)>> \o InsertItem(x, Tail(s))

\* topics.items() as it is, not sorted
ItemsUnsorted(d) == d

RECURSIVE SortedItems(_)
\* sorted(topics.items()): a stable sort of the (key, list) tuples
SortedItems(d) ==
    IF d = <<>> THEN <<>>
    ELSE InsertItem(d[Len(d)], SortedItems(SubSeq(d, 1, Len(d) - 1)))

RECURSIVE InsertFile(_, _)
InsertFile(x, s) ==
    IF s = <<>> THEN <<x>>
    ELSE IF StrLess(x, Head(s)) THEN <<x>> \o s
    ELSE <<Head(s)>> \o InsertFile(x, Tail(s))

RECURSIVE SortedFiles(_)
\* sorted(files): a stable sort of the file names
SortedFiles(files) ==
    IF files = <<>> THEN <<>>
    ELSE InsertFile(files[Len(files)], SortedFiles(SubSeq(files, 1, Len(files) - 1)))

\* The first character upper-cased, the others as they are
capitalizeFirstOnly(s) ==
    [i \in 1..Len(s) |-> IF i = 1 THEN Upper(s[i]) ELSE s[i]]

\* topic.capitalize(): the first character upper-cased, the others lower-cased
capitalize(s) ==
    [i \in 1..Len(s) |-> IF i = 1 THEN Upper(s[i]) ELSE Lower(s[i])]

\* The suffix removed only from a name that ends with it
StripSuffixIfPresent(f) ==
    IF EndsWith(f, JavaSuffix) THEN SubSeq(f, 1, Len(f) - Len(JavaSuffix)) ELSE f

\* f[:-5]
StripSuffix(f) == IF Len(f) > SuffixCut THEN SubSeq(f, 1, Len(f) - SuffixCut) ELSE <<>>

\* f"- **{topic.capitalize()}**"
TopicLine(topic) == <<"-"," ","*","*">> \o capitalize(topic) \o <<"*","*">>

\* os.path.join(BASE_DIR, topic, f).replace("\\", "/")
LinkPath(topic, f) ==
    ReplaceChar(BASE_DIR \o <<"/">> \o topic \o <<"/">> \o f, "\\", "/")

\* f"  - [{name}]({path})"
ExampleLine(topic, f) ==
    <<" "," ","-"," ","[">> \o StripSuffix(f) \o <<"]","(">> \o LinkPath(topic, f) \o <<")">>

\* The lines one topic adds: its bullet, its examples in sorted order, and "".
TopicLines(item) ==
    LET fs == SortedFiles(item[2]) IN
    <<TopicLine(item[1])>> \o [i \in 1..Len(fs) |-> ExampleLine(item[1], fs[i])] \o << <<>> >>

\* generate_section with a heading line that lacks its "\n"
generate_section_bare(d) ==
    LET items == ItemsUnsorted(d)
        lines == <<StartHeading>> \o Concat([i \in 1..Len(items) |-> TopicLines(items[i])])
    IN  Join(<<"\n">>, lines)

\* generate_section(topics)
generate_section(d) ==
    LET items == SortedItems(d)
        lines == << StartHeading \o <<"\n">> >>
                 \o Concat([i \in 1..Len(items) |-> TopicLines(items[i])])
    IN  Join(<<"\n">>, lines)

-----------------------------------------------------------------------------
(* replace_section                                                         *)

\* What re.sub raises for a replacement template it cannot parse.
TemplateError == <<"<re.error>">>

\* The escapes a replacement template turns into one character.
TemplateEscapes ==
    <<  <<"a", "U+0007">>, <<"b", "U+0008">>, <<"f", "\f">>, <<"n", "\n">>,
        <<"r", "\r">>, <<"t", "\t">>, <<"v", "U+000B">>, <<"\\", "\\">>  >>

IsTemplateEscape(c) == \E p \in Range(TemplateEscapes) : p[1] = c

\* The index of the first backslash of the text, 0 when it has none.
FirstBackslash(text) ==
    LET hits == {i \in 1..Len(text) : text[i] = "\\"}
    IN  IF hits = {} THEN 0 ELSE CHOOSE i \in hits : \A j \in hits : i <= j

RECURSIVE ExpandTemplate(_)
\* re.sub's processing of the replacement string: a backslash followed by an
\* escape letter becomes the escaped character, by another ASCII letter is an
\* error, by any other character stays as it is. (\g needs a "<", and a group
\* number a digit: the texts of the model hold neither, so \g is an error too.)
ExpandTemplate(repl) ==
    LET b == FirstBackslash(repl) IN
    IF b = 0 THEN repl
    ELSE IF b = Len(repl) THEN TemplateError
    ELSE LET c == repl[b + 1]
             rest == ExpandTemplate(SubSeq(repl, b + 2, Len(repl)))
             this == IF IsTemplateEscape(c)
                     THEN <<(CHOOSE p \in Range(TemplateEscapes) : p[1] = c)[2]>>
                     ELSE <<"\\", c>>
         IN  IF (IsAsciiLetter(c) /\ ~IsTemplateEscape(c)) \/ rest = TemplateError
             THEN TemplateError
             ELSE SubSeq(repl, 1, b - 1) \o this \o rest

\* text.find(pat, from): the first index >= from where pat occurs, 0 when none
Find(text, pat, from) ==
    LET hits == {i \in from..(Len(text) - Len(pat) + 1) :
                    /\ text[i] = pat[1]
                    /\ SubSeq(text, i, i + Len(pat) - 1) = pat}
    IN  IF hits = {} THEN 0 ELSE CHOOSE i \in hits : \A j \in hits : i <= j

\* The next match of the pattern StartHeading .*? EndHeading (with re.S) from
\* pos on: <<first index, index after the last>>, <<0, 0>> when there is none.
NextMatch(text, pos) ==
    LET s == Find(text, StartHeading, pos)
        e == IF s = 0 THEN 0 ELSE Find(text, EndHeading, s + Len(StartHeading))
    IN  IF e = 0 THEN <<0, 0>> ELSE <<s, e + Len(EndHeading)>>

RECURSIVE SubFrom(_, _, _)
\* re.sub from pos on: every non-overlapping match, left to right, replaced by rep
SubFrom(text, pos, rep) ==
    LET m == NextMatch(text, pos) IN
    IF m[1] = 0 THEN SubSeq(text, pos, Len(text))
    ELSE SubSeq(text, pos, m[1] - 1) \o rep \o SubFrom(text, m[2], rep)

\* replace_section with re.sub(..., count=1): the first match only
replace_section_first(text, section) ==
    LET rep == ExpandTemplate(section \o <<"\n">> \o EndHeading)
        m == NextMatch(text, 1)
    IN  IF rep = TemplateError THEN TemplateError
        ELSE IF m[1] = 0 THEN text
        ELSE SubSeq(text, 1, m[1] - 1) \o rep \o SubSeq(text, m[2], Len(text))

\* replace_section(content, new_section): the new text, or TemplateError
replace_section(text, section) ==
    LET rep == ExpandTemplate(section \o <<"\n">> \o EndHeading) IN
    IF rep = TemplateError THEN TemplateError ELSE SubFrom(text, 1, rep)

-----------------------------------------------------------------------------
(* The file system the script runs on.                                     *)

\* The directories below BASE_DIR, each the sequence of its names:
\* BASE_DIR itself, BASE_DIR/bC, BASE_DIR/a and BASE_DIR/a/D.
DirRoot == <<>>
DirBC == << <<"b","C">> >>
DirA == << <<"a">> >>
DirAD == << <<"a">>, <<"D">> >>

\* File names: two examples, a file that is no example, two examples with a
\* backslash in the name, and an example named like the end heading.
FileA == <<"a">> \o JavaSuffix
FileB == <<"B">> \o JavaSuffix
FileTxt == <<"x",".","t","x","t">>
FileBsN == <<"\\","n">> \o JavaSuffix
FileBsQ == <<"\\","q">> \o JavaSuffix
FileEnd == EndHeading \o JavaSuffix

\* The files a tree is drawn from.
TreeUniverse ==
    ({DirRoot} \X {FileA, FileB, FileTxt, FileBsN, FileBsQ, FileEnd})
    \cup ({DirBC} \X {FileB})
    \cup ({DirAD} \X {FileA})

Trees == {t \in SUBSET TreeUniverse : Cardinality(t) <= MaxFiles}

\* The pieces a README is drawn from.
DocPieces == {StartHeading, EndHeading, <<"x">>}

Docs == {Concat(ps) : ps \in UNION {[1..n -> DocPieces] : n \in 0..MaxPieces}}

\* The sequences that list every element of the set once.
Perms(S) ==
    {p \in [1..Cardinality(S) -> S] : \A i, j \in 1..Cardinality(S) : p[i] = p[j] => i = j}

FilesIn(t, dir) == {e[2] : e \in {x \in t : x[1] = dir}}

\* The orders in which a top-down os.walk can yield the four directories: the
\* root first, a directory before its subdirectories, siblings in any order.
WalkOrders == {<<DirRoot, DirBC, DirA, DirAD>>, <<DirRoot, DirA, DirAD, DirBC>>}

AllDirs == {DirRoot, DirBC, DirA, DirAD}

\* The orders in which the files of each directory can be listed.
Listings(t) ==
    {[d \in AllDirs |-> IF d = DirRoot THEN l[1] ELSE IF d = DirBC THEN l[2]
                        ELSE IF d = DirA THEN l[3] ELSE l[4]] :
        l \in Perms(FilesIn(t, DirRoot)) \X Perms(FilesIn(t, DirBC))
              \X Perms(FilesIn(t, DirA)) \X Perms(FilesIn(t, DirAD))}

\* os.walk(BASE_DIR): every sequence of <<root, files>> it can yield. A root that
\* does not exist yields nothing (os.walk ignores the error of listing it).
os_walk(exists, t) ==
    IF ~exists THEN {<<>>}
    ELSE {[i \in 1..Len(o) |-> <<o[i], l[o[i]]>>] : o \in WalkOrders, l \in Listings(t)}

-----------------------------------------------------------------------------
(* main(): one invocation is collect, render, read, splice, write.         *)

\* The value of a local that has not been assigned (no text holds this token).
Unset == <<"<unset>">>

Init ==
    /\ rootExists \in BOOLEAN
    /\ tree \in Trees
    /\ (~rootExists => tree = {})
    /\ readme \in Docs \cup {Missing}
    /\ pc = "collect"
    /\ topics = Unset
    /\ new_section = Unset
    /\ content = Unset
    /\ updated = Unset
    /\ run = 1
    /\ writes = 0
    /\ readmeAtStart = readme
    /\ prevSection = Unset

\* topics = collect_examples()
Collect ==
    /\ pc = "collect"
    /\ \E walk \in os_walk(rootExists, tree) : topics' = collect_examples(walk)
    /\ pc' = "render"
    /\ UNCHANGED <<rootExists, tree, readme, new_section, content, updated,
                   run, writes, readmeAtStart, prevSection>>

\* new_section = generate_section(topics)
Render ==
    /\ pc = "render"
    /\ new_section' = generate_section(topics)
    /\ pc' = "read"
    /\ UNCHANGED <<rootExists, tree, readme, topics, content, updated,
                   run, writes, readmeAtStart, prevSection>>

\* with open(README) as f: content = f.read()
Read ==
    /\ pc = "read"
    /\ readme # Missing
    /\ content' = readme
    /\ pc' = "splice"
    /\ UNCHANGED <<rootExists, tree, readme, topics, new_section, updated,
                   run, writes, readmeAtStart, prevSection>>

\* A missing README read as an empty one
ReadMissingAsEmpty ==
    /\ pc = "read"
    /\ readme = Missing
    /\ content' = <<>>
    /\ pc' = "splice"
    /\ UNCHANGED <<rootExists, tree, readme, topics, new_section, updated,
                   run, writes, readmeAtStart, prevSection>>

\* open(README) raises FileNotFoundError, which nothing catches
ReadMissing ==
    /\ pc = "read"
    /\ readme = Missing
    /\ pc' = "fatal"
    /\ UNCHANGED <<rootExists, tree, readme, topics, new_section, content, updated,
                   run, writes, readmeAtStart, prevSection>>

\* updated = replace_section(content, new_section)
Splice ==
    /\ pc = "splice"
    /\ LET result == replace_section(content, new_section) IN
        /\ result # TemplateError
        /\ updated' = result
    /\ pc' = "write"
    /\ UNCHANGED <<rootExists, tree, readme, topics, new_section, content,
                   run, writes, readmeAtStart, prevSection>>

\* re.sub raises re.error, which nothing catches
SpliceError ==
    /\ pc = "splice"
    /\ replace_section(content, new_section) = TemplateError
    /\ updated' = TemplateError
    /\ pc' = "fatal"
    /\ UNCHANGED <<rootExists, tree, readme, topics, new_section, content,
                   run, writes, readmeAtStart, prevSection>>

\* with open(README, "w") as f: f.write(updated)
Write ==
    /\ pc = "write"
    /\ readme' = updated
    /\ writes' = writes + 1
    /\ pc' = "done"
    /\ UNCHANGED <<rootExists, tree, topics, new_section, content, updated,
                   run, readmeAtStart, prevSection>>

\* The script is invoked again, on the same tree and the README as it now is.
Rerun ==
    /\ pc \in {"done", "fatal"}
    /\ run < MaxRuns
    /\ run' = run + 1
    /\ pc' = "collect"
    /\ topics' = Unset
    /\ new_section' = Unset
    /\ content' = Unset
    /\ updated' = Unset
    /\ writes' = 0
    /\ readmeAtStart' = readme
    /\ prevSection' = new_section
    /\ UNCHANGED <<rootExists, tree, readme>>

Next ==
    \/ Collect
    \/ Render
    \/ Read
    \/ ReadMissing
    \/ Splice
    \/ SpliceError
    \/ Write
    \/ Rerun

Spec == Init /\ [][Next]_vars

-----------------------------------------------------------------------------
(* generate_section called on its own, with any mapping.                   *)

FileShort == <<"a","b">>
FileJav == <<"a","b",".","j","a","v">>

RenderKeys == {relpath(DirRoot), relpath(DirBC)}
RenderFiles == {FileA, FileTxt, FileShort, FileJav}
RenderLists == UNION {[1..n -> RenderFiles] : n \in 1..MaxFiles}

\* The dicts of at most two keys, each with a list of file names.
RenderInputs ==
    {<<>>}
    \cup {<< <<k, l>> >> : k \in RenderKeys, l \in RenderLists}
    \cup {d \in {<< <<k1, l1>>, <<k2, l2>> >> :
                    k1 \in RenderKeys, k2 \in RenderKeys,
                    l1 \in RenderLists, l2 \in RenderLists} : d[1][1] # d[2][1]}

InitRender ==
    /\ rootExists = FALSE
    /\ tree = {}
    /\ readme = Missing
    /\ pc = "call"
    /\ topics \in RenderInputs
    /\ new_section = Unset
    /\ content = Unset
    /\ updated = Unset
    /\ run = 1
    /\ writes = 0
    /\ readmeAtStart = Missing
    /\ prevSection = Unset

\* new_section = generate_section(topics), for the caller's topics
CallRender ==
    /\ pc = "call"
    /\ new_section' = generate_section(topics)
    /\ pc' = "returned"
    /\ UNCHANGED <<rootExists, tree, readme, topics, content, updated,
                   run, writes, readmeAtStart, prevSection>>

SpecRender == InitRender /\ [][CallRender]_vars

-----------------------------------------------------------------------------
(* What the claims speak of.                                               *)

\* The indices where pat occurs in text.
Occ(text, pat) ==
    {i \in 1..(Len(text) - Len(pat) + 1) :
        text[i] = pat[1] /\ SubSeq(text, i, i + Len(pat) - 1) = pat}

\* The text holds the line (every line of a block is between two newlines).
HasLine(text, line) == Occ(text, <<"\n">> \o line \o <<"\n">>) # {}

Least(S) == CHOOSE i \in S : \A j \in S : i <= j

\* The start headings of the text, from pos on, that an end heading follows.
OpenStarts(text, pos) ==
    {s \in Occ(text, StartHeading) :
        s >= pos /\ \E e \in Occ(text, EndHeading) : e > s}

\* The first region from pos on: <<index of its start heading, index after its
\* end heading>>; a region runs from a start heading to the first end heading
\* after it.
RegionAt(text, pos) ==
    LET s == Least(OpenStarts(text, pos))
        e == Least({i \in Occ(text, EndHeading) : i > s})
    IN  <<s, e + Len(EndHeading)>>

RECURSIVE OutsideTexts(_, _)
\* The texts outside the regions of the text, from pos on, left to right: one
\* more than there are regions.
OutsideTexts(text, pos) ==
    IF OpenStarts(text, pos) = {} THEN <<SubSeq(text, pos, Len(text))>>
    ELSE LET r == RegionAt(text, pos)
         IN  <<SubSeq(text, pos, r[1] - 1)>> \o OutsideTexts(text, r[2])

RegionCount(text) == Len(OutsideTexts(text, 1)) - 1

RECURSIVE SumLen(_)
SumLen(ts) == IF ts = <<>> THEN 0 ELSE Len(Head(ts)) + SumLen(Tail(ts))

\* One start heading, one end heading, the start heading first.
OneRegion(text) ==
    /\ Cardinality(Occ(text, StartHeading)) = 1
    /\ Cardinality(Occ(text, EndHeading)) = 1
    /\ Least(Occ(text, StartHeading)) < Least(Occ(text, EndHeading))

\* replace_section has just returned.
SpliceReturned == pc = "write"

\* replace_section has just returned or raised.
SpliceEnded == SpliceReturned \/ (pc = "fatal" /\ updated = TemplateError)

\* generate_section has just returned.
Rendered == pc = "read"

\* collect_examples has just returned.
Collected == pc = "render"

\* C1 (as claimed): when the Document holds exactly one marker region,
\* replace_section returns the text before the start heading, then the new block
\* and the end-heading line, then the text after the end heading, whatever
\* characters the block holds.
C1_SpliceExact ==
    (SpliceEnded /\ OneRegion(content)) =>
        LET s == Least(Occ(content, StartHeading))
            e == Least(Occ(content, EndHeading))
        IN  updated = SubSeq(content, 1, s - 1)
                      \o new_section \o <<"\n">> \o EndHeading
                      \o SubSeq(content, e + Len(EndHeading), Len(content))

\* C2 (as claimed): a second run on the same tree leaves the Document as the
\* first run left it.
C2_Idempotent ==
    (run >= 2 /\ pc \in {"done", "fatal"}) => readme = readmeAtStart

\* C3 (as claimed): when no start heading is followed by an end heading,
\* replace_section returns its input and the run reports no error.
C3_NoRegionNoOp ==
    (SpliceEnded /\ RegionCount(content) = 0) => (updated = content /\ pc # "fatal")

\* The examples of the tree, and the topic keys they are under.
JavaTree == {e \in tree : EndsWith(e[2], JavaSuffix)}
JavaKeys == {relpath(e[1]) : e \in JavaTree}
JavaFilesOf(key) == {e[2] : e \in {x \in JavaTree : relpath(x[1]) = key}}

\* C4: the keys of collect_examples' mapping are the relative paths of the
\* directories that directly hold a ".java" file, no key twice; the list of a
\* key holds each ".java" file of its directory once and nothing else.
C4_CollectorGrouping ==
    Collected =>
        /\ {topics[i][1] : i \in 1..Len(topics)} = JavaKeys
        /\ \A i, j \in 1..Len(topics) : topics[i][1] = topics[j][1] => i = j
        /\ \A i \in 1..Len(topics) :
            LET l == topics[i][2] IN
            /\ Range(l) = JavaFilesOf(topics[i][1])
            /\ \A a, b \in 1..Len(l) : l[a] = l[b] => a = b
            /\ l # <<>>

\* A tree of two directories, one of them without a ".java" file, collected.
C4_Witness ==
    /\ pc = "render"
    /\ Cardinality({e[1] : e \in tree}) = 2
    /\ Len(topics) = 1

\* The i-th key, and the j-th file of a key, in increasing order.
KeyAt(i) == CHOOSE k \in JavaKeys : Cardinality({k2 \in JavaKeys : StrLess(k2, k)}) = i - 1
FileAt(key, j) ==
    CHOOSE f \in JavaFilesOf(key) :
        Cardinality({f2 \in JavaFilesOf(key) : StrLess(f2, f)}) = j - 1

\* The block of the tree: topics by increasing key, examples by increasing name.
OrderedLines ==
    << StartHeading \o <<"\n">> >>
    \o Concat([i \in 1..Cardinality(JavaKeys) |->
                <<TopicLine(KeyAt(i))>>
                \o [j \in 1..Cardinality(JavaFilesOf(KeyAt(i))) |->
                        ExampleLine(KeyAt(i), FileAt(KeyAt(i), j))]
                \o << <<>> >>])

\* C5: whatever order the Collector visited directories and files in, the block
\* lists the topics in strictly increasing order of key and each topic's examples
\* in strictly increasing order of name, and so equals the block the previous
\* run rendered from the same tree.
C5_RenderedOrder ==
    Rendered =>
        /\ \A i, j \in 1..Cardinality(JavaKeys) : i < j => StrLess(KeyAt(i), KeyAt(j))
        /\ new_section = Join(<<"\n">>, OrderedLines)
        /\ prevSection # Unset => new_section = prevSection

\* A second run that collected two topics in decreasing order of key.
C5_Witness ==
    /\ pc = "read"
    /\ prevSection # Unset
    /\ Len(topics) = 2
    /\ StrLess(topics[2][1], topics[1][1])

\* C6 (as claimed): the bullet line of a topic shows the key with its first
\* character upper-cased and every other character unchanged.
C6_RestUnchanged ==
    Rendered =>
        \A i \in 1..Len(topics) :
            LET key == topics[i][1] IN
            HasLine(new_section,
                    <<"-"," ","*","*">> \o <<Upper(key[1])>> \o Tail(key) \o <<"*","*">>)

\* C6 (amended): the bullet line of a topic shows the key with its first
\* character upper-cased and every other character lower-cased.
C6_RestLowered ==
    Rendered =>
        \A i \in 1..Len(topics) :
            LET key == topics[i][1] IN
            HasLine(new_section,
                    <<"-"," ","*","*">> \o <<Upper(key[1])>>
                    \o [k \in 1..(Len(key) - 1) |-> Lower(key[k + 1])] \o <<"*","*">>)

\* A block rendered for a key with an upper-case letter after its first character.
C6_Witness ==
    /\ pc = "read"
    /\ \E i \in 1..Len(topics) : \E k \in 2..Len(topics[i][1]) : IsUpper(topics[i][1][k])

C9_MissingRoot ==
    ~rootExists =>
        /\ Collected => topics = <<>>
        /\ Rendered => new_section = StartHeading \o <<"\n">>
        /\ pc = "fatal" => readmeAtStart = Missing
        /\ pc = "done" =>
            readme = Join(StartHeading \o <<"\n", "\n">> \o EndHeading,
                          OutsideTexts(readmeAtStart, 1))

\* A run without a scan root that has rewritten the region of the Document.
C9_Witness ==
    /\ ~rootExists
    /\ pc = "done"
    /\ RegionCount(readmeAtStart) >= 1
    /\ readme # readmeAtStart

\* The steps of main in their order, and the start of a new invocation.
StepOrder ==
    {<<"collect", "render">>, <<"render", "read">>, <<"read", "splice">>,
     <<"read", "fatal">>, <<"splice", "write">>, <<"splice", "fatal">>,
     <<"write", "done">>, <<"done", "collect">>, <<"fatal", "collect">>}

\* C10: the steps of a run are collect, render, read, splice, write in this
\* order; the Document changes only in the write step, once per run and after
\* it was read; a run that ends in an error has written nothing, and a
\* missing Document stays missing.
C10_WriteLast ==
    [][ /\ pc' # pc => <<pc, pc'>> \in StepOrder
        /\ readme' # readme =>
            (pc = "write" /\ pc' = "done" /\ writes = 0 /\ writes' = 1 /\ content = readme)
        /\ writes' <= 1
        /\ pc' = "fatal" => (writes' = 0 /\ readme' = readmeAtStart')
        /\ readmeAtStart' = Missing => readme' = Missing ]_vars

\* A run that ended in an error because the Document is missing.
C10_Witness ==
    /\ pc = "fatal"
    /\ new_section # Unset
    /\ readme = Missing

=============================================================================
